---- MODULE Spec2Model ----
(***************************************************************************)
(* Model of coca (src/src/coca.py): LinesSession, Line and _LineEntry, and *)
(* of the terminal the session writes to.                                  *)
(*                                                                         *)
(* The methods are translated into a small-step machine: a call is a list  *)
(* of instructions (prog), the head of which is either executed or         *)
(* replaced by the instructions of the method it calls.  Spec runs every   *)
(* call to completion in one step (single-threaded use); SpecThreads lets  *)
(* worker threads interleave between the instructions.  SpecDeep,          *)
(* SpecLines, SpecTpl and SpecWidth are single-threaded uses with other    *)
(* inputs, and SpecPrim calls the private methods the way the tests do.    *)
(*                                                                         *)
(* The terminal: ESC[nE / ESC[nF move the cursor n rows down / up, to      *)
(* column 0; ESC[0G goes to column 0; ESC[2K blanks the cursor's row; a    *)
(* printed text overwrites the cells from column 0 on, wrapping every      *)
(* Width cells, and its newline leaves the cursor on the row below the     *)
(* last row written.                                                       *)
(***************************************************************************)
EXTENDS Integers, Sequences, FiniteSets, TLC

\* ------------------------------------------------------------------ bounds
Width == 2          \* available_width: columns of the terminal
MaxHeight == 2      \* Spec: texts passed to line()/update() are at most this high
MaxLines == 2       \* Spec: line() calls per session
DeepHeight == 3     \* SpecDeep: as MaxHeight
DeepLines == 3      \* SpecDeep: as MaxLines
MaxCalls == 1       \* SpecThreads: calls made by each worker thread
MaxSetup == 2       \* SpecThreads: line() calls made before the workers start
MaxGrowLines == 2   \* SpecGrow: line() calls made before the workers start
MaxGrow == 1        \* SpecGrow: updates made by each worker thread
OnlyLines == 3      \* SpecLines: line() calls per session
OnlyHeight == 2     \* SpecLines: literal texts are at most this high
TplLines == 1       \* SpecTpl: line() calls per session
MaxCounter == 4     \* SpecPrim: lines_counter stays at or below this
PrimHeight == 2     \* SpecPrim: texts printed are at most this high
MaxExtend == 1      \* SpecPrim: _extend is called with at most this size

Threads == {"t1", "t2"}   \* the worker threads
Main == "main"            \* the thread that constructs the session
Free == "free"            \* printing_lock when no thread holds it

VARIABLES
  lines_counter,    \* LinesSession.lines_counter
  current_line,     \* LinesSession.current_line (the tracked cursor row)
  lines_index,      \* the _LineEntry records, in creation order (linked list)
  line_objs,        \* the Line objects, line_objs[i] owning lines_index[i]
  printing_lock,    \* LinesSession.printing_lock: Free, or the holder
  screen,           \* terminal: row -> cells, for the rows that are not blank
  cursor,           \* terminal: the row the real cursor is on
  out,              \* the terminal writes of the call(s) started last
  threads,          \* per worker: remaining instructions and locals
  started,          \* the workers have been started
  log,              \* SpecThreads: calls, in lock-acquisition order
  last,             \* the call made last by the main thread
  columns,          \* the columns the environment reports for the terminal
  available_width   \* LinesSession.available_width

vars == <<lines_counter, current_line, lines_index, line_objs, printing_lock,
          screen, cursor, out, threads, started, log, last, columns,
          available_width>>

\* ------------------------------------------------------------------- texts
Max(a, b) == IF a >= b THEN a ELSE b
Min(a, b) == IF a <= b THEN a ELSE b

\* A text is a sequence of characters.  A template is a sequence of tokens:
\* <<"c", ch>> is the character ch, <<"p", name>> the placeholder {name}.
Chars(ch, n) == [k \in 1..n |-> ch]
Lit(ch, n) == [k \in 1..n |-> <<"c", ch>>]
Names == {"x", "y"}
EmptyKw == [k \in {} |-> <<>>]
Kw1(name, val) == [k \in {name} |-> val]

Placeholders(template) ==
  {template[k][2] : k \in {j \in 1..Len(template) : template[j][1] = "p"}}

RECURSIVE Verbatim(_)
Verbatim(template) ==
  IF template = <<>> THEN <<>>
  ELSE (IF Head(template)[1] = "p"
          THEN <<"{", Head(template)[2], "}">>
          ELSE <<Head(template)[2]>>) \o Verbatim(Tail(template))

RECURSIVE Format(_, _)
Format(template, kwargs) ==
  IF template = <<>> THEN <<>>
  ELSE (IF Head(template)[1] = "p"
          THEN kwargs[Head(template)[2]]
          ELSE <<Head(template)[2]>>) \o Format(Tail(template), kwargs)

\* str.format raises KeyError for a placeholder without a keyword argument
FormatRaises(template, kwargs) ==
  ~(Placeholders(template) \subseteq DOMAIN kwargs)

\* dict.update
DictUpdate(kwargs, new) ==
  [k \in DOMAIN kwargs \cup DOMAIN new |->
     IF k \in DOMAIN new THEN new[k] ELSE kwargs[k]]

\* line 204: if not self.kwargs
NoKwargsNever(kwargs) == FALSE
NoKwargs(kwargs) == DOMAIN kwargs = {}

\* Line.text on a Line no other thread can reach
TextRaises(obj) ==
  ~NoKwargs(obj.kwargs) /\ FormatRaises(obj.template, obj.kwargs)
LineText(obj) ==
  IF NoKwargs(obj.kwargs) THEN Verbatim(obj.template)
  ELSE Format(obj.template, obj.kwargs)

CeilDiv(a, b) == (a + b - 1) \div b
\* line 133, for a session whose available_width is width
NbPhysicalLines(width, text) == Max(1, CeilDiv(Len(text), width))
\* line 133, for a session on a terminal that reports its Width columns
ComputeNbPhysicalLines(text) == NbPhysicalLines(Width, text)

\* shutil.get_terminal_size()[0]: the columns the environment reports, or
\* the fallback when it reports none
Fallback == 80
GetTerminalSize(cols) == IF cols <= 0 THEN Fallback ELSE cols
\* LinesSession.__init__ has no statement that raises, whatever is reported
InitRaises(cols) == FALSE

\* ---------------------------------------------------------------- terminal
Row(scr, r) == IF r \in DOMAIN scr THEN scr[r] ELSE <<>>
SetRow(scr, r, cells) ==
  IF cells = <<>> THEN [x \in DOMAIN scr \ {r} |-> scr[x]]
  ELSE [x \in DOMAIN scr \cup {r} |-> IF x = r THEN cells ELSE scr[x]]

Chunk(text, k) == SubSeq(text, k * Width + 1, Min(Len(text), (k + 1) * Width))
Overwrite(old, new) == new \o SubSeq(old, Len(new) + 1, Len(old))

\* the screen after text is written from column 0 of row r
WriteText(scr, r, text) ==
  LET h == CeilDiv(Len(text), Width)
      touched == {r + k : k \in 0..(h - 1)}
  IN [x \in DOMAIN scr \cup touched |->
        IF x \in touched THEN Overwrite(Row(scr, x), Chunk(text, x - r))
        ELSE scr[x]]

\* a terminal write: its code ("E", "F", "G", "K", or "T" for a text and its
\* newline), the cursor row it was written at, the call that wrote it, and
\* what the session held when it wrote: cur, its current_line, target, the
\* line_number it was moving to (its current_line when it was not moving),
\* and counter, its lines_counter
W(code, n, text, at, by, cur, target, counter) ==
  [code |-> code, n |-> n, text |-> text, at |-> at, by |-> by, cur |-> cur,
   target |-> target, counter |-> counter]

\* ------------------------------------------------------------- instructions
\* An instruction: op names the statement(s) it stands for, n and m are its
\* integer arguments, text its text argument.
I(op, n, m, text) == [op |-> op, n |-> n, m |-> m, text |-> text]
I0(op) == I(op, 0, 0, <<>>)

\* line 66: a new entry starts on the last row of the canvas
NewLineNumberAtCounter(counter) == counter
NewLineNumber(counter) == counter - 1
\* line 130: the row end() moves the cursor to
EndTarget(counter) == counter - 1
\* line 150
AfterPrintOneRow(line_number, size) == line_number + 1
AfterPrint(line_number, size) == line_number + size
\* line 151
BumpCounterNoTail(counter, cur) == Max(counter, cur)
BumpCounter(counter, cur) == Max(counter, cur + 1)
\* lines 170-172: range(self.lines_counter - 1, self.lines_counter + size)
ExtendFirst(counter) == counter - 1
ExtendStopShort(counter, size) == counter + size - 1
ExtendStop(counter, size) == counter + size
\* line 181
TruncateSize(counter, cur) == counter - cur - 1
\* line 182: range(self.current_line, self.lines_counter - 1)
TruncateStopAtCounter(counter) == counter
TruncateStop(counter) == counter - 1
\* line 110
CascadeStartByOne(line_number, new_nb) == line_number + 1
CascadeStart(line_number, new_nb) == line_number + new_nb
\* line 117
CascadeNext(line_number, nb) == line_number + nb
\* line 97
MustExtendSame(old_nb, new_nb) == old_nb <= new_nb
MustExtend(old_nb, new_nb) == old_nb < new_nb
\* line 103
MustCascadeAlways(old_nb, new_nb) == TRUE
MustCascade(old_nb, new_nb) == old_nb # new_nb
\* line 120
MustTruncate(old_nb, new_nb) == new_nb < old_nb
\* threading.Lock: acquire blocks while the lock is held
LockFree(lock) == lock = Free

\* _print_at_line('', k) for k in range(first, stop)
BlankLines(first, stop) ==
  [k \in 1..(stop - first) |-> I("print_at", first + k - 1, 0, <<>>)]

\* lines 142-144: for position in range(line_number, line_number + size)
EraseLoopFirstRow(line_number, size) ==
  <<I("setcur", line_number, 0, <<>>), I0("erase")>>
EraseLoop(line_number, size) ==
  [k \in 1..(2 * size) |->
     IF k % 2 = 1 THEN I("setcur", line_number + (k - 1) \div 2, 0, <<>>)
     ELSE I0("erase")]

\* an exception leaves the call; the with statement releases the lock
RaiseHoldingLock(M) ==
  [M EXCEPT !.prog = <<>>, !.raised = TRUE, !.inbody = FALSE]
Raise(M) ==
  [M EXCEPT !.prog = <<>>, !.raised = TRUE, !.inbody = FALSE,
            !.printing_lock = IF @ = M.me THEN Free ELSE @]

Emit(M, w) == [M EXCEPT !.out = Append(@, w)]
By(M) == <<M.me, M.ncalls>>

\* One instruction of the thread whose locals are in M.
Step(M) ==
  LET i == Head(M.prog)
      rest == Tail(M.prog)
      h == M.call.h
      Go(MM, instrs) == [MM EXCEPT !.prog = instrs \o rest]
  IN CASE i.op = "upd215" ->      \* Line.update: self.template = template
            Go([M EXCEPT !.line_objs[h].template = M.call.template], <<>>)
       [] i.op = "upd216" ->      \* self.kwargs = {}
            Go([M EXCEPT !.line_objs[h].kwargs = EmptyKw], <<>>)
       [] i.op = "upd217" ->      \* self.kwargs.update(kwargs)
            Go([M EXCEPT !.line_objs[h].kwargs = DictUpdate(@, M.call.kwargs)],
               <<>>)
       [] i.op = "acquire" ->     \* with self.printing_lock:
            Go([M EXCEPT !.printing_lock = M.me, !.inbody = TRUE,
                         !.log = Append(@, M.call)], <<>>)
       [] i.op = "release" ->
            Go([M EXCEPT !.printing_lock = Free, !.inbody = FALSE], <<>>)
       [] i.op = "line59" ->      \* line_obj = Line(...); text = line_obj.text()
            LET obj == [template |-> M.call.template, kwargs |-> M.call.kwargs]
            IN IF TextRaises(obj) THEN Raise(M)
               ELSE Go([M EXCEPT !.ret = LineText(obj)], <<>>)
       [] i.op = "line61" ->      \* lines 61-80
            LET nb == NbPhysicalLines(M.available_width, M.ret)
                ln == NewLineNumber(M.lines_counter)
                entry == [text |-> M.ret, line_number |-> ln,
                          nb_physical_lines |-> nb]
                obj == [template |-> M.call.template, kwargs |-> M.call.kwargs]
            IN Go([M EXCEPT !.lines_index = Append(@, entry),
                            !.line_objs = Append(@, obj)],
                  <<I("extend", nb - 1, 0, <<>>), I("print_at", ln, 0, M.ret)>>)
       [] i.op = "pl90" ->        \* line_entry = self.lines_index[id(line_obj)]
            IF h \in 1..Len(M.lines_index) THEN Go(M, <<>>) ELSE Raise(M)
       [] i.op = "text204" ->     \* Line.text: if not self.kwargs
            IF NoKwargs(M.line_objs[h].kwargs)
              THEN Go(M, <<I0("text205")>>) ELSE Go(M, <<I0("text206")>>)
       [] i.op = "text205" ->     \* return self.template
            Go([M EXCEPT !.ret = Verbatim(M.line_objs[h].template)], <<>>)
       [] i.op = "text206" ->     \* return self.template.format(**self.kwargs)
            LET obj == M.line_objs[h]
            IN IF FormatRaises(obj.template, obj.kwargs) THEN Raise(M)
               ELSE Go([M EXCEPT !.ret = Format(obj.template, obj.kwargs)], <<>>)
       [] i.op = "pl92" ->        \* lines 92-101
            LET old_nb == M.lines_index[h].nb_physical_lines
                new_nb == NbPhysicalLines(M.available_width, M.ret)
            IN Go([M EXCEPT !.lines_index[h].text = M.ret],
                  (IF MustExtend(old_nb, new_nb)
                     THEN <<I("extend", new_nb - old_nb, 0, <<>>)>> ELSE <<>>)
                  \o <<I("print_at", M.lines_index[h].line_number, 0, M.ret),
                       I("pl103", old_nb, new_nb, <<>>)>>)
       [] i.op = "pl103" ->       \* lines 103-110 and 120-124
            LET old_nb == i.n
                new_nb == i.m
            IN IF MustCascade(old_nb, new_nb)
                 THEN Go([M EXCEPT !.lines_index[h].nb_physical_lines = new_nb],
                         <<I("cascade", h + 1,
                             CascadeStart(M.lines_index[h].line_number, new_nb),
                             <<>>)>>
                         \o (IF MustTruncate(old_nb, new_nb)
                               THEN <<I0("truncate")>> ELSE <<>>))
                 ELSE Go(M, IF MustTruncate(old_nb, new_nb)
                              THEN <<I0("truncate")>> ELSE <<>>)
       [] i.op = "cascade" ->     \* lines 111-118, one turn of the loop
            IF i.n > Len(M.lines_index) THEN Go(M, <<>>)
            ELSE Go([M EXCEPT !.lines_index[i.n].line_number = i.m],
                    <<I("print_at", i.m, 0, M.lines_index[i.n].text),
                      I("cascade", i.n + 1,
                        CascadeNext(i.m, M.lines_index[i.n].nb_physical_lines),
                        <<>>)>>)
       [] i.op = "end130" ->      \* end
            Go([M EXCEPT !.log = Append(@, M.call)],
               <<I("setcur", EndTarget(M.lines_counter), 0, <<>>)>>)
       [] i.op = "print_at" ->    \* _print_at_line, lines 139-151
            LET size == NbPhysicalLines(M.available_width, i.text)
            IN Go(M, EraseLoop(i.n, size)
                     \o <<I("setcur", i.n, 0, <<>>), I("ptext", 0, 0, i.text),
                          I("pa150", AfterPrint(i.n, size), 0, <<>>),
                          I0("pa151")>>)
       [] i.op = "erase" ->       \* print("\033[2K", end='')
            Go(Emit([M EXCEPT !.screen = SetRow(@, M.cursor, <<>>)],
                    W("K", 2, <<>>, M.cursor, By(M), M.current_line,
                      M.current_line, M.lines_counter)), <<>>)
       [] i.op = "ptext" ->       \* print(text)
            Go(Emit([M EXCEPT !.screen = WriteText(@, M.cursor, i.text),
                              !.cursor = @ + ComputeNbPhysicalLines(i.text)],
                    W("T", 0, i.text, M.cursor, By(M), M.current_line,
                      M.current_line, M.lines_counter)), <<>>)
       [] i.op = "pa150" ->       \* self.current_line = line_number + size
            Go([M EXCEPT !.current_line = i.n], <<>>)
       [] i.op = "pa151" ->
            Go([M EXCEPT !.lines_counter = BumpCounter(@, M.current_line)],
               <<>>)
       [] i.op = "setcur" ->      \* line 156: diff = line_number - current_line
            Go(M, <<I("move", i.n - M.current_line, i.n, <<>>)>>)
       [] i.op = "move" ->        \* lines 157-162: the escape code is printed
            Go(Emit([M EXCEPT !.cursor = @ + i.n],
                    W(IF i.n = 0 THEN "G" ELSE IF i.n > 0 THEN "E" ELSE "F",
                      IF i.n >= 0 THEN i.n ELSE -i.n, <<>>, M.cursor, By(M),
                      M.current_line, i.m, M.lines_counter)),
               <<I("setcw", i.m, 0, <<>>)>>)
       [] i.op = "setcw" ->       \* line 163: self.current_line = line_number
            Go([M EXCEPT !.current_line = i.n], <<>>)
       [] i.op = "extend" ->      \* _extend
            Go(M, BlankLines(ExtendFirst(M.lines_counter),
                             ExtendStop(M.lines_counter, i.n)))
       [] i.op = "truncate" ->    \* _truncate, lines 180-184
            Go(M, BlankLines(M.current_line, TruncateStop(M.lines_counter))
                  \o <<I("setcur", M.current_line, 0, <<>>),
                       I("tr185",
                         TruncateSize(M.lines_counter, M.current_line),
                         0, <<>>)>>)
       [] i.op = "tr185" ->       \* self.lines_counter -= size_truncation
            Go([M EXCEPT !.lines_counter = @ - i.n], <<>>)

RECURSIVE Run(_)
Run(M) == IF M.prog = <<>> THEN M ELSE Run(Step(M))

\* ------------------------------------------------------------------- calls
\* A call: kind is "line", "update" or "end"; h is the Line updated (its
\* position in creation order); hasT tells whether a template is passed.
Call(kind, h, hasT, template, kwargs) ==
  [kind |-> kind, h |-> h, hasT |-> hasT, template |-> template,
   kwargs |-> kwargs]

LineProg == <<I0("acquire"), I0("line59"), I0("line61"), I0("release")>>
PrintLineProg ==
  <<I0("acquire"), I0("pl90"), I0("text204"), I0("pl92"), I0("release")>>
UpdateProg(hasT) ==
  (IF hasT THEN <<I0("upd215"), I0("upd216")>> ELSE <<>>)
  \o <<I0("upd217")>> \o PrintLineProg
EndProg == <<I0("end130")>>

\* the private methods, called as tests/test_linessession.py calls them:
\* call.h is the integer argument, call.template renders the text argument
PrimProg(call) ==
  IF call.kind = "print_at"
    THEN <<I("print_at", call.h, 0, Verbatim(call.template))>>
  ELSE IF call.kind = "setcur" THEN <<I("setcur", call.h, 0, <<>>)>>
  ELSE IF call.kind = "extend" THEN <<I("extend", call.h, 0, <<>>)>>
  ELSE <<I0("truncate")>>

ProgOf(call) ==
  IF call.kind = "line" THEN LineProg
  ELSE IF call.kind = "update" THEN UpdateProg(call.hasT)
  ELSE IF call.kind = "print_line" THEN PrintLineProg
  ELSE IF call.kind = "end" THEN EndProg
  ELSE PrimProg(call)

\* ------------------------------------------------------------------ inputs
CharOf(k) == IF k = 1 THEN "a" ELSE IF k = 2 THEN "b" ELSE "c"
\* a literal template k rows high
LitT(k) == Lit(CharOf(k), (k - 1) * Width + 1)
\* the template that renders verbatim as text (no braces in text)
AsTemplate(text) == [k \in 1..Len(text) |-> <<"c", text[k]>>]
TX == << <<"p", "x">> >>
TY == << <<"p", "y">> >>
Short == Chars("v", 1)
Long == Chars("w", Width + 1)

\* what the single-threaded specifications pass to line() and update()
Templates == {LitT(k) : k \in 1..MaxHeight}
DeepTemplates == {LitT(k) : k \in 1..DeepHeight}
Kwargs == {EmptyKw}

\* ------------------------------------------------------------------- state
NoCall == Call("none", 0, FALSE, <<>>, EmptyKw)
Idle == [prog |-> <<>>, ret |-> <<>>, raised |-> FALSE, inbody |-> FALSE,
         call |-> NoCall, ncalls |-> 0]
NoLast == [kind |-> "none", h |-> 0, raised |-> FALSE, old_nb |-> 0,
           old_text |-> <<>>, thread |-> Main]

\* LinesSession.__init__, on a blank terminal for which the environment
\* reports cols columns
Construct(cols) ==
  /\ lines_counter = 1
  /\ current_line = 0
  /\ lines_index = <<>>
  /\ line_objs = <<>>
  /\ printing_lock = Free
  /\ screen = [r \in {} |-> <<>>]
  /\ cursor = 0
  /\ out = <<>>
  /\ threads = [t \in Threads |-> Idle]
  /\ started = FALSE
  /\ log = <<>>
  /\ last = NoLast
  /\ columns = cols
  /\ available_width = GetTerminalSize(cols)

\* the terminal reports its Width columns
Init == Construct(Width)

\* the session and the terminal, as a record
Shared ==
  [lines_counter |-> lines_counter, current_line |-> current_line,
   lines_index |-> lines_index, line_objs |-> line_objs,
   printing_lock |-> printing_lock, screen |-> screen, cursor |-> cursor,
   out |-> out, log |-> log, available_width |-> available_width]

\* the machine of thread t, on the session S, with the locals loc
Machine(S, t, loc) ==
  [lines_counter |-> S.lines_counter, current_line |-> S.current_line,
   lines_index |-> S.lines_index, line_objs |-> S.line_objs,
   printing_lock |-> S.printing_lock, screen |-> S.screen,
   cursor |-> S.cursor, out |-> S.out, log |-> S.log,
   available_width |-> S.available_width,
   prog |-> loc.prog, ret |-> loc.ret, raised |-> loc.raised,
   inbody |-> loc.inbody, call |-> loc.call, ncalls |-> loc.ncalls,
   me |-> t]

\* the locals of a thread entering call
Enter(call, ncalls) ==
  [prog |-> ProgOf(call), ret |-> <<>>, raised |-> FALSE, inbody |-> FALSE,
   call |-> call, ncalls |-> ncalls]

\* the session S after the main thread has run call, alone, to its end
After(S, call) == Run(Machine([S EXCEPT !.out = <<>>], Main, Enter(call, 0)))

Commit(M) ==
  /\ lines_counter' = M.lines_counter
  /\ current_line' = M.current_line
  /\ lines_index' = M.lines_index
  /\ line_objs' = M.line_objs
  /\ printing_lock' = M.printing_lock
  /\ screen' = M.screen
  /\ cursor' = M.cursor
  /\ out' = M.out
  /\ UNCHANGED <<columns, available_width>>

OldNb(call) ==
  IF call.kind = "update" /\ call.h \in 1..Len(lines_index)
    THEN lines_index[call.h].nb_physical_lines ELSE 0
OldText(call) ==
  IF call.kind = "update" /\ call.h \in 1..Len(lines_index)
    THEN lines_index[call.h].text ELSE <<>>

LastOf(t, call, raised) ==
  [kind |-> call.kind, h |-> call.h, raised |-> raised,
   old_nb |-> OldNb(call), old_text |-> OldText(call), thread |-> t]

\* a whole call by the main thread, no other thread running
WholeCall(call) ==
  \E M \in {After(Shared, call)} :
     /\ Commit(M)
     /\ last' = LastOf(Main, call, M.raised)
     /\ UNCHANGED <<threads, started, log>>

\* session.line(template, **kwargs)
LineCall(templates, n) ==
  /\ ~started
  /\ Len(lines_index) < n
  /\ \E template \in templates, kwargs \in Kwargs :
       WholeCall(Call("line", 0, TRUE, template, kwargs))

\* line.update(template, **kwargs) and line.update(**kwargs)
UpdateCall(templates) ==
  /\ ~started
  /\ \E h \in 1..Len(lines_index), hasT \in BOOLEAN, kwargs \in Kwargs :
       \E template \in IF hasT THEN templates ELSE {<<>>} :
         WholeCall(Call("update", h, hasT, template, kwargs))

LineAct == LineCall(Templates, MaxLines)
UpdateAct == UpdateCall(Templates)

\* session.end()
EndAct ==
  /\ ~started
  /\ WholeCall(Call("end", 0, FALSE, <<>>, EmptyKw))

Next == LineAct \/ UpdateAct \/ EndAct

Spec == Init /\ [][Next]_vars

\* SpecWidth: as Spec, in an environment that reports the columns of the
\* terminal, or none (0), or a negative number (COLUMNS=-1).  Where a
\* terminal that reports no size wraps is not known: the texts are of one
\* character, one row high on any terminal.
EnvColumns == {-1, 0, Width}
InitWidth == \E cols \in EnvColumns : ~InitRaises(cols) /\ Construct(cols)
WidthTemplates == {Lit(CharOf(k), 1) : k \in 1..DeepHeight}
WidthLine == LineCall(WidthTemplates, MaxLines)
WidthUpdate == UpdateCall(WidthTemplates)
NextWidth == WidthLine \/ WidthUpdate \/ EndAct
SpecWidth == InitWidth /\ [][NextWidth]_vars

\* SpecDeep: as Spec, with more and higher lines
DeepLine == LineCall(DeepTemplates, DeepLines)
DeepUpdate == UpdateCall(DeepTemplates)
NextDeep == DeepLine \/ DeepUpdate \/ EndAct
SpecDeep == Init /\ [][NextDeep]_vars

\* SpecLines: a session on which line() only is called, with the empty
\* text, literal texts and texts rendered from a parameter
OnlyLineCalls ==
  {Call("line", 0, TRUE, <<>>, EmptyKw)}
  \cup {Call("line", 0, TRUE, LitT(k), EmptyKw) : k \in 1..OnlyHeight}
  \cup {Call("line", 0, TRUE, TX, Kw1("x", v)) : v \in {Short, Long}}

LineOnly ==
  /\ ~started
  /\ Len(lines_index) < OnlyLines
  /\ \E call \in OnlyLineCalls : WholeCall(call)

NextLines == LineOnly
SpecLines == Init /\ [][NextLines]_vars

\* SpecTpl: single-threaded use with templates that have placeholders, with
\* parameters that cover them or not, and with print_line called for a Line
\* that session.line did not create
TplTemplates == {LitT(1), TX}
TplKwargs == {EmptyKw, Kw1("x", Short), Kw1("x", Long), Kw1("y", Short)}

TplLineCalls ==
  {Call("line", 0, TRUE, template, kwargs) :
     template \in TplTemplates, kwargs \in TplKwargs}
TplUpdateCalls ==
  {Call("update", h, TRUE, template, kwargs) :
     h \in 1..Len(lines_index), template \in TplTemplates,
     kwargs \in TplKwargs}
  \cup {Call("update", h, FALSE, <<>>, kwargs) :
          h \in 1..Len(lines_index), kwargs \in TplKwargs}
\* print_line(Line(session, ...)): the Line has no entry in lines_index
Unregistered == Call("print_line", Len(lines_index) + 1, FALSE, <<>>, EmptyKw)

TplLine ==
  /\ ~started
  /\ Len(lines_index) < TplLines
  /\ \E call \in TplLineCalls : WholeCall(call)
TplUpdate == ~started /\ \E call \in TplUpdateCalls : WholeCall(call)
TplPrintLine == ~started /\ WholeCall(Unregistered)

NextTpl == TplLine \/ TplUpdate \/ TplPrintLine \/ EndAct
SpecTpl == Init /\ [][NextTpl]_vars

\* SpecPrim: the private methods called on a session, as the tests call
\* them: _print_at_line, _set_cursor_to_line_number, _extend and _truncate
PrimTexts == {<<>>} \cup {Verbatim(LitT(k)) : k \in 1..PrimHeight}
Prim(kind, n, text) == Call(kind, n, TRUE, AsTemplate(text), EmptyKw)

PrimPrintAt ==
  /\ ~started
  /\ \E text \in PrimTexts :
       \E n \in 0..(MaxCounter - 1 - ComputeNbPhysicalLines(text)) :
         WholeCall(Prim("print_at", n, text))

PrimSetCursor ==
  /\ ~started
  /\ \E n \in 0..(lines_counter - 1) : WholeCall(Prim("setcur", n, <<>>))

PrimExtend ==
  /\ ~started
  /\ \E size \in 0..MaxExtend :
       /\ ExtendStop(lines_counter, size) + 1 <= MaxCounter
       /\ WholeCall(Prim("extend", size, <<>>))

PrimTruncate ==
  /\ ~started
  /\ WholeCall(Prim("truncate", 0, <<>>))

NextPrim == PrimPrintAt \/ PrimSetCursor \/ PrimExtend \/ PrimTruncate
SpecPrim == Init /\ [][NextPrim]_vars

\* ----------------------------------------------------------------- threads
\* SpecThreads: the main thread creates lines, then starts the workers; each
\* worker makes up to MaxCalls calls, one instruction at a time.

\* the calls the main thread makes before it starts the workers
SetupCalls ==
  {Call("line", 0, TRUE, LitT(1), EmptyKw),
   Call("line", 0, TRUE, TX, Kw1("x", Short))}

\* the calls a worker may make
ThreadCalls ==
  {Call("end", 0, FALSE, <<>>, EmptyKw),
   Call("line", 0, TRUE, LitT(1), EmptyKw)}
  \cup {Call("update", h, TRUE, TX, Kw1("x", Long)) : h \in 1..Len(lines_index)}
  \cup {Call("update", h, TRUE, TY, Kw1("y", Short)) : h \in 1..Len(lines_index)}

Setup(calls, n) ==
  /\ ~started
  /\ Len(lines_index) < n
  /\ \E call \in calls :
       \E M \in {After(Shared, call)} :
          /\ Commit(M)
          /\ log' = M.log
          /\ UNCHANGED <<threads, started, last>>

SetupLine == Setup(SetupCalls, MaxSetup)

\* threading.Thread(...).start() for every worker
StartWorkers ==
  /\ ~started
  /\ started' = TRUE
  /\ out' = <<>>
  /\ UNCHANGED <<lines_counter, current_line, lines_index, line_objs,
                 printing_lock, screen, cursor, threads, log, last, columns,
                 available_width>>

\* worker t enters a call
ThreadCall(t) ==
  /\ started
  /\ threads[t].prog = <<>>
  /\ threads[t].ncalls < MaxCalls
  /\ \E call \in ThreadCalls :
       threads' = [threads EXCEPT ![t] = Enter(call, threads[t].ncalls + 1)]
  /\ UNCHANGED <<lines_counter, current_line, lines_index, line_objs,
                 printing_lock, screen, cursor, out, started, log, last,
                 columns, available_width>>

Locals(M) ==
  [prog |-> M.prog, ret |-> M.ret, raised |-> M.raised, inbody |-> M.inbody,
   call |-> M.call, ncalls |-> M.ncalls]

\* worker t executes its next instruction; acquire waits for the lock
ThreadStep(t) ==
  /\ started
  /\ threads[t].prog # <<>>
  /\ Head(threads[t].prog).op = "acquire" => LockFree(printing_lock)
  /\ \E M \in {Step(Machine(Shared, t, threads[t]))} :
       /\ Commit(M)
       /\ log' = M.log
       /\ threads' = [threads EXCEPT ![t] = Locals(M)]
  /\ UNCHANGED <<started, last>>

NextThreads ==
  \/ SetupLine
  \/ StartWorkers
  \/ \E t \in Threads : ThreadCall(t)
  \/ \E t \in Threads : ThreadStep(t)

SpecThreads == Init /\ [][NextThreads]_vars

\* SpecGrow: as examples.py threads_example, with the lines created first:
\* every worker updates a line of its own, with texts that never get shorter.
LineOf(t) == IF t = "t1" THEN 1 ELSE 2

\* the Line after the assignments of Line.update, lines 214-217
Updated(obj, call) ==
  [template |-> IF call.hasT THEN call.template ELSE obj.template,
   kwargs |-> DictUpdate(IF call.hasT THEN EmptyKw ELSE obj.kwargs,
                         call.kwargs)]

GrowCalls(t) ==
  {call \in {Call("update", LineOf(t), TRUE, LitT(k), EmptyKw) :
               k \in 1..MaxHeight}
            \cup {Call("update", LineOf(t), FALSE, <<>>, Kw1("x", Long))} :
     LET new == Updated(line_objs[LineOf(t)], call)
     IN /\ ~TextRaises(new)
        /\ Len(LineText(new)) >= Len(LineText(line_objs[LineOf(t)]))}

\* session.line("[Thread {thread}]: {count}", ...) of threads_example
SetupGrow ==
  Setup({Call("line", 0, TRUE, TX, Kw1("x", Short))}, MaxGrowLines)

StartGrow ==
  /\ \A t \in Threads : LineOf(t) <= Len(lines_index)
  /\ StartWorkers

GrowCall(t) ==
  /\ started
  /\ threads[t].prog = <<>>
  /\ threads[t].ncalls < MaxGrow
  /\ \E call \in GrowCalls(t) :
       threads' = [threads EXCEPT ![t] = Enter(call, threads[t].ncalls + 1)]
  /\ UNCHANGED <<lines_counter, current_line, lines_index, line_objs,
                 printing_lock, screen, cursor, out, started, log, last,
                 columns, available_width>>

NextGrow ==
  \/ SetupGrow
  \/ StartGrow
  \/ \E t \in Threads : GrowCall(t)
  \/ \E t \in Threads : ThreadStep(t)

SpecGrow == Init /\ [][NextGrow]_vars

\* ------------------------------------------------- single-threaded claims
NbEntries == Len(lines_index)
RowsOf(e) == e.line_number .. (e.line_number + e.nb_physical_lines - 1)
EntryRows(entries) == UNION {RowsOf(entries[i]) : i \in 1..Len(entries)}
EndOf(e) == e.line_number + e.nb_physical_lines

\* row, height of every entry and the counter: the layout bookkeeping
Layout(S) ==
  [rows |-> [i \in 1..Len(S.lines_index) |-> S.lines_index[i].line_number],
   heights |-> [i \in 1..Len(S.lines_index) |->
                  S.lines_index[i].nb_physical_lines],
   lines_counter |-> S.lines_counter]

\* C1: between calls, every entry starts on the row right after the rows of
\* the entry created before it.
C1_Contiguous ==
  \A i \in 1..(NbEntries - 1) :
    lines_index[i + 1].line_number = EndOf(lines_index[i])

\* what the screen shows on row r according to the entries
Expected(entries, r) ==
  LET on == {i \in 1..Len(entries) : r \in RowsOf(entries[i])}
  IN IF on = {} THEN <<>>
     ELSE LET i == CHOOSE j \in on : TRUE
          IN Chunk(entries[i].text, r - entries[i].line_number)

\* C2: between calls, the rows of every entry show its text, its height is
\* the height of its text, and every other row is blank.
C2_ScreenAgrees ==
  /\ \A i \in 1..NbEntries :
       /\ lines_index[i].nb_physical_lines =
            ComputeNbPhysicalLines(lines_index[i].text)
       /\ \A r \in RowsOf(lines_index[i]) :
            Row(screen, r) = Chunk(lines_index[i].text,
                                   r - lines_index[i].line_number)
  /\ \A r \in DOMAIN screen : screen[r] = Expected(lines_index, r)

\* C3: an update that changes the height of entry h by D moves every later
\* entry by D rows and leaves h's row and the earlier entries alone.
C3_ShiftByDelta ==
  [][(last'.kind = "update" /\ ~last'.raised) =>
       LET h == last'.h
           D == lines_index'[h].nb_physical_lines
                  - lines_index[h].nb_physical_lines
       IN D # 0 =>
            /\ \A j \in (h + 1)..NbEntries :
                 lines_index'[j].line_number = lines_index[j].line_number + D
            /\ lines_index'[h].line_number = lines_index[h].line_number
            /\ \A j \in 1..(h - 1) :
                 /\ lines_index'[j].line_number = lines_index[j].line_number
                 /\ lines_index'[j].nb_physical_lines =
                      lines_index[j].nb_physical_lines]_vars

\* C8: updating an entry to a higher text and then back to the text it had
\* restores every row, every height and the counter.
C8_GrowShrinkRestores ==
  \A h \in 1..NbEntries, k \in 1..MaxHeight :
    k > lines_index[h].nb_physical_lines =>
      LET grown == After(Shared, Call("update", h, TRUE, LitT(k), EmptyKw))
          back == After(grown, Call("update", h, TRUE,
                                    AsTemplate(lines_index[h].text), EmptyKw))
      IN Layout(back) = Layout(Shared)

\* C9: between calls the counter is at least 1 and at least the end of the
\* last entry, and end() leaves the cursor on row lines_counter - 1, which no
\* entry occupies.
C9_EndRowFree ==
  /\ lines_counter >= 1
  /\ NbEntries > 0 => lines_counter >= EndOf(lines_index[NbEntries])
  /\ last.kind = "end" =>
       /\ current_line = lines_counter - 1
       /\ cursor = current_line
       /\ current_line \notin EntryRows(lines_index)

C9_Witness ==
  /\ last.kind = "end"
  /\ NbEntries >= 2
  /\ \E i \in 1..NbEntries : lines_index[i].nb_physical_lines > 1
  /\ current_line = EndOf(lines_index[NbEntries])

\* C10: an update that keeps the height of entry h writes to the rows of h
\* only, and changes no row, no height and not the counter.
C10_SameHeightFrame ==
  [][(/\ last'.kind = "update"
      /\ ~last'.raised
      /\ ComputeNbPhysicalLines(lines_index'[last'.h].text)
           = lines_index[last'.h].nb_physical_lines) =>
       LET h == last'.h
       IN /\ \A k \in 1..Len(out') :
               out'[k].code \in {"K", "T"} =>
                 out'[k].at \in RowsOf(lines_index[h])
          /\ \E k \in 1..Len(out') :
               out'[k].code = "T" /\ out'[k].text = lines_index'[h].text
          /\ \A r \in (DOMAIN screen \cup DOMAIN screen')
                        \ RowsOf(lines_index[h]) :
               Row(screen', r) = Row(screen, r)
          /\ Layout(Shared)' = Layout(Shared)]_vars

C10_Witness ==
  /\ last.kind = "update"
  /\ ~last.raised
  /\ last.h < NbEntries
  /\ last.old_nb = lines_index[last.h].nb_physical_lines
  /\ last.old_nb > 1
  /\ \E k \in 1..Len(out) :
       out[k].code = "T" /\ out[k].text = lines_index[last.h].text

\* ------------------------------------------------------- concurrency claims
AllIdle == \A t \in Threads : threads[t].prog = <<>>
InEnd(t) == threads[t].prog # <<>> /\ threads[t].call.kind = "end"

\* an end() that has started and not returned
MidEnd(t) == InEnd(t) /\ threads[t].prog # EndProg

\* between calls, the tracked cursor row is the row of the terminal's cursor
CursorTracked == (started /\ AllIdle) => current_line = cursor

\* C4: end() runs under the session lock: no thread is inside the locked part
\* of line() or update() while another thread is in the middle of end(), and
\* once every call has returned the tracked cursor row is the row of the
\* terminal's cursor.
C4_EndUnderLock ==
  /\ \A t, u \in Threads : (t # u /\ MidEnd(t)) => ~threads[u].inbody
  /\ CursorTracked

InitShared ==
  [lines_counter |-> 1, current_line |-> 0, lines_index |-> <<>>,
   line_objs |-> <<>>, printing_lock |-> Free, screen |-> [r \in {} |-> <<>>],
   cursor |-> 0, out |-> <<>>, log |-> <<>>, available_width |-> Width]

RECURSIVE Replay(_, _)
Replay(S, calls) ==
  IF calls = <<>> THEN S ELSE Replay(After(S, Head(calls)), Tail(calls))

Bookkeeping(S) ==
  [lines_index |-> S.lines_index, lines_counter |-> S.lines_counter,
   current_line |-> S.current_line]

NoEndCalled ==
  /\ \A k \in 1..Len(log) : log[k].kind # "end"
  /\ \A t \in Threads : threads[t].call.kind # "end"

\* C5: with threads calling line() and update() only, the writes of one call
\* are never interleaved with those of another, and once every call has
\* returned the bookkeeping is the one of the same calls made one at a time
\* in the order in which they took the lock.
C5_Serialised ==
  NoEndCalled =>
    /\ \A i, j, k \in 1..Len(out) :
         (i < j /\ j < k /\ out[i].by = out[k].by) => out[j].by = out[i].by
    /\ AllIdle => Bookkeeping(Shared) = Bookkeeping(Replay(InitShared, log))

\* an update that passes a template and every parameter of that template
Complete(call) ==
  /\ call.kind = "update"
  /\ call.hasT
  /\ Placeholders(call.template) \subseteq DOMAIN call.kwargs
TextOfCall(call) ==
  LineText([template |-> call.template, kwargs |-> call.kwargs])

\* C6: when two threads have updated the same Line, each with a template and
\* all of its parameters, no call has raised and the line shows the text of
\* one of the two calls.
C6_SharedLineSafe ==
  \A t1, t2 \in Threads :
    (/\ t1 # t2
     /\ AllIdle
     /\ Complete(threads[t1].call)
     /\ Complete(threads[t2].call)
     /\ threads[t1].call.h = threads[t2].call.h) =>
      /\ ~threads[t1].raised
      /\ ~threads[t2].raised
      /\ lines_index[threads[t1].call.h].text
           \in {TextOfCall(threads[t1].call), TextOfCall(threads[t2].call)}

\* C7: when the workers, each updating a line of its own that line() created
\* before they started, with texts that never get shorter, have all returned,
\* the entries are contiguous, no row belongs to two entries and no row
\* between the first and the last entry is unoccupied.
C7_GrowContiguous ==
  (started /\ AllIdle) =>
    /\ \A i \in 1..(NbEntries - 1) :
         lines_index[i + 1].line_number = EndOf(lines_index[i])
    /\ \A i, j \in 1..NbEntries :
         i # j => RowsOf(lines_index[i]) \cap RowsOf(lines_index[j]) = {}
    /\ NbEntries > 0 =>
         \A r \in lines_index[1].line_number
                    .. (EndOf(lines_index[NbEntries]) - 1) :
           r \in EntryRows(lines_index)

C7_Witness ==
  /\ started
  /\ AllIdle
  /\ NbEntries = MaxGrowLines
  /\ \A t \in Threads :
       /\ threads[t].ncalls = MaxGrow
       /\ ~threads[t].raised
       /\ lines_index[LineOf(t)].nb_physical_lines > 1
  /\ lines_index[NbEntries].line_number > NbEntries - 1

\* ------------------------------------------------------ claims C11 to C20
\* C11: when an update of a line follows an update of the same line, and
\* renders the text the first one rendered, it leaves every row, every height
\* and the counter as the first one left them.
C11_UpdateIdempotent ==
  [][(/\ last.kind = "update"
      /\ ~last.raised
      /\ last'.kind = "update"
      /\ ~last'.raised
      /\ last'.h = last.h
      /\ lines_index'[last.h].text = lines_index[last.h].text) =>
       Layout(Shared)' = Layout(Shared)]_vars

\* an update made last that rendered the text its entry already had, on a
\* wrapped line that has lines below it
C11_Witness ==
  /\ last.kind = "update"
  /\ ~last.raised
  /\ last.h < NbEntries
  /\ last.old_text = lines_index[last.h].text
  /\ lines_index[last.h].nb_physical_lines > 1
  /\ Layout(After(Shared, Call("update", last.h, FALSE, <<>>, EmptyKw)))
       = Layout(Shared)

RECURSIVE SumHeights(_, _)
SumHeights(entries, n) ==
  IF n = 0 THEN 0
  ELSE SumHeights(entries, n - 1) + entries[n].nb_physical_lines

\* C12: when only line() has been called, every entry's row is the sum of the
\* heights of the entries created before it (its index, counted from 0, when
\* every entry is one row high), and the counter is the total height plus one.
C12_RowsAreSums ==
  /\ \A i \in 1..NbEntries :
       /\ lines_index[i].line_number = SumHeights(lines_index, i - 1)
       /\ lines_index[i].nb_physical_lines
            = ComputeNbPhysicalLines(lines_index[i].text)
  /\ (\A i \in 1..NbEntries : Len(lines_index[i].text) <= Width) =>
       \A i \in 1..NbEntries : lines_index[i].line_number = i - 1
  /\ lines_counter = SumHeights(lines_index, NbEntries) + 1

C12_Witness ==
  /\ last.kind = "line"
  /\ NbEntries = OnlyLines
  /\ lines_index[1].nb_physical_lines > 1
  /\ lines_index[2].text = <<>>
  /\ lines_index[NbEntries].line_number > NbEntries - 1

\* the Line whose text a line() or update() call renders
Rendered(call) ==
  IF call.kind = "line"
    THEN [template |-> call.template, kwargs |-> call.kwargs]
    ELSE Updated(line_objs[call.h], call)
MissingParam(obj) == ~(Placeholders(obj.template) \subseteq DOMAIN obj.kwargs)
Printed(M, text) ==
  \E k \in 1..Len(M.out) : M.out[k].code = "T" /\ M.out[k].text = text

\* C13 as stated: whenever the template has a placeholder without a
\* parameter at render time, whether there are parameters or none, line()
\* and update() raise and print nothing.
C13_MissingParamRaises ==
  \A call \in TplLineCalls \cup TplUpdateCalls :
    MissingParam(Rendered(call)) =>
      \A M \in {After(Shared, call)} : M.raised /\ M.out = <<>>

\* C13 amended: with parameters, a placeholder without a parameter makes
\* line() and update() raise and print nothing; without any parameter the
\* template is printed as it is written, placeholders included, and nothing
\* is raised.
C13_MissingParamAmended ==
  \A call \in TplLineCalls \cup TplUpdateCalls :
    \A obj \in {Rendered(call)}, M \in {After(Shared, call)} :
       /\ (MissingParam(obj) /\ DOMAIN obj.kwargs # {}) =>
            (M.raised /\ M.out = <<>>)
       /\ DOMAIN obj.kwargs = {} =>
            (~M.raised /\ Printed(M, Verbatim(obj.template)))
       /\ ~MissingParam(obj) => ~M.raised

\* an update that raised for its missing parameter, in a session that shows
\* a template with its placeholder as written
C13_Witness ==
  /\ last.kind = "update"
  /\ last.raised
  /\ \E i \in 1..NbEntries :
       /\ lines_index[i].text = Verbatim(TX)
       /\ Row(screen, lines_index[i].line_number)
            = Chunk(Verbatim(TX), 0)

\* a call that cannot complete: print_line for a Line without an entry, or a
\* line() or update() whose text cannot be rendered
Fails(call) ==
  IF call.kind = "print_line" THEN call.h \notin 1..Len(lines_index)
  ELSE TextRaises(Rendered(call))

\* C14: such a call raises, leaves the entries, the counter, the tracked
\* cursor and the terminal as they were, and leaves the lock free: a line()
\* and an update() made next complete.
C14_FailureLeavesSession ==
  \A call \in TplLineCalls \cup TplUpdateCalls \cup {Unregistered} :
    \A M \in {After(Shared, call)} :
       /\ Fails(call) <=> M.raised
       /\ M.raised =>
            /\ Bookkeeping(M) = Bookkeeping(Shared)
            /\ M.out = <<>>
            /\ M.screen = screen
            /\ M.cursor = cursor
            /\ M.printing_lock = Free
            /\ \A next \in {After(M, Call("line", 0, TRUE, LitT(1), EmptyKw))} :
                 /\ ~next.raised
                 /\ next.printing_lock = Free
                 /\ Len(next.lines_index) = NbEntries + 1
            /\ \A h \in 1..NbEntries :
                 ~After(M, Call("update", h, TRUE, LitT(1), EmptyKw)).raised

\* a print_line that raised, in a session with a wrapped entry
C14_Witness ==
  /\ last.raised
  /\ last.kind = "print_line"
  /\ NbEntries = TplLines
  /\ \E i \in 1..NbEntries : lines_index[i].nb_physical_lines > 1
  /\ printing_lock = Free
  /\ out = <<>>

\* C15: no session exists for which the environment reported zero or fewer
\* columns (construction raised), and the width heights are computed with is
\* positive.
C15_InvalidWidthRejected ==
  /\ columns <= 0 => InitRaises(columns)
  /\ available_width > 0

\* the rows a write moves the terminal's cursor down by
Delta(w) ==
  IF w.code = "E" THEN w.n
  ELSE IF w.code = "F" THEN -w.n
  ELSE IF w.code = "T" THEN ComputeNbPhysicalLines(w.text)
  ELSE 0

\* C16: in the writes of a line(), update() or end() made one after the
\* other, every write is made with the terminal's cursor on the row the
\* session holds, every write leaves it on the row the next write holds and
\* the last on the row the session holds after the call, and a move to the
\* row held writes no vertical move, any other move one move of the distance.
C16_CursorTracked ==
  /\ cursor = current_line
  /\ \A k \in 1..Len(out) :
       /\ out[k].at = out[k].cur
       /\ out[k].at + Delta(out[k])
            = IF k < Len(out) THEN out[k + 1].cur ELSE current_line
       /\ out[k].code \in {"G", "E", "F"} =>
            (out[k].code = "G" <=> out[k].target = out[k].cur)
       /\ out[k].code = "E" =>
            (out[k].target > out[k].cur
             /\ out[k].n = out[k].target - out[k].cur)
       /\ out[k].code = "F" =>
            (out[k].target < out[k].cur
             /\ out[k].n = out[k].cur - out[k].target)
       /\ out[k].code \in {"K", "T"} => out[k].target = out[k].cur

\* an update that moved the cursor up by more than one row, down, and not at
\* all, and printed a wrapped text
C16_Witness ==
  /\ last.kind = "update"
  /\ \E k \in 1..Len(out) : out[k].code = "F" /\ out[k].n > 1
  /\ \E k \in 1..Len(out) : out[k].code = "E"
  /\ \E k \in 1..Len(out) : out[k].code = "G"
  /\ \E k \in 1..Len(out) : out[k].code = "T" /\ Len(out[k].text) > Width

\* the writes of texts that are not empty
TextWrites(ws) == {k \in 1..Len(ws) : ws[k].code = "T" /\ ws[k].text # <<>>}

\* C17: in line() and update(), when a text that is not empty is printed at
\* a row, the counter is already above the row after the text: printing it
\* does not raise the counter, does not write to the last row, and the
\* counter is raised by the printing of blank lines only.
C17_ReservedBeforeWritten ==
  last.kind \in {"line", "update"} =>
    /\ \A k \in TextWrites(out) :
         LET h == ComputeNbPhysicalLines(out[k].text)
         IN /\ out[k].cur + h <= out[k].counter - 1
            /\ BumpCounter(out[k].counter, AfterPrint(out[k].cur, h))
                 = out[k].counter
    /\ \A k \in 1..Len(out) :
         (IF k < Len(out) THEN out[k + 1].counter ELSE lines_counter)
           > out[k].counter =>
             (out[k].code = "T" /\ out[k].text = <<>>)

\* an update that grew a wrapped entry: blank lines raised the counter, then
\* the entry and the entry below it were printed
C17_Witness ==
  /\ last.kind = "update"
  /\ last.h < NbEntries
  /\ last.old_nb < lines_index[last.h].nb_physical_lines
  /\ \E k \in 1..Len(out) :
       /\ out[k].code = "T"
       /\ out[k].text = <<>>
       /\ lines_counter > out[k].counter
  /\ \E k, j \in TextWrites(out) :
       /\ k < j
       /\ out[k].text = lines_index[last.h].text
       /\ out[j].text = lines_index[last.h + 1].text
       /\ out[j].cur = lines_index[last.h + 1].line_number

\* the writes with one of the codes, and the rows a sequence of writes moves
\* the terminal's cursor down by
WritesOf(ws, codes) == {k \in 1..Len(ws) : ws[k].code \in codes}
RECURSIVE NetMove(_, _)
NetMove(ws, n) == IF n = 0 THEN 0 ELSE NetMove(ws, n - 1) + Delta(ws[n])

\* C18: _extend(n) prints n empty lines, on the rows from lines_counter - 1
\* on, and raises the counter by n.
C18_ExtendExact ==
  [][last'.kind = "extend" =>
       LET n == last'.h
           ts == WritesOf(out', {"T"})
       IN /\ Cardinality(ts) = n
          /\ \A k \in ts : out'[k].text = <<>>
          /\ {out'[k].at : k \in ts}
               = (lines_counter - 1)..(lines_counter + n - 2)
          /\ lines_counter' = lines_counter + n]_vars

\* C19: _truncate, with the cursor on row c and the counter n, c <= n - 1,
\* erases the rows c to n - 2, each once, leaves the terminal's cursor and the
\* tracked cursor on row c, and lowers the counter by the number of rows
\* erased, to c + 1.
C19_TruncateExact ==
  [][(last'.kind = "truncate" /\ current_line <= lines_counter - 1) =>
       LET c == current_line
           n == lines_counter
           ks == WritesOf(out', {"K"})
       IN /\ {out'[k].at : k \in ks} = c..(n - 2)
          /\ Cardinality(ks) = n - 1 - c
          /\ \A r \in c..(n - 2) : Row(screen', r) = <<>>
          /\ \A r \in DOMAIN screen : r < c => Row(screen', r) = screen[r]
          /\ NetMove(out', Len(out')) = 0
          /\ cursor' = c
          /\ current_line' = c
          /\ lines_counter' = c + 1
          /\ lines_counter' = n - Cardinality(ks)]_vars

\* a _truncate that erased two rows or more, below a row that shows a text
C19_Witness ==
  /\ last.kind = "truncate"
  /\ Cardinality(WritesOf(out, {"K"})) >= 2
  /\ lines_counter = current_line + 1
  /\ \E r \in DOMAIN screen : r < current_line

\* C20: _print_at_line(text, n), with the cursor on row c and h the height of
\* text, erases the rows n to n + h - 1 and then writes the text on row n,
\* after relative moves of n - c rows in all, leaves the cursor on row n + h
\* and the counter at the greater of what it was and n + h + 1.
C20_PrintAtLine ==
  [][last'.kind = "print_at" =>
       LET n == last'.h
           c == current_line
           t == CHOOSE k \in WritesOf(out', {"T"}) : TRUE
           h == ComputeNbPhysicalLines(out'[t].text)
           ks == WritesOf(out', {"K"})
       IN /\ WritesOf(out', {"T"}) = {Len(out')}
          /\ {out'[k].at : k \in ks} = n..(n + h - 1)
          /\ Cardinality(ks) = h
          /\ \A k \in 1..(t - 1) : out'[k].code \in {"E", "F", "G", "K"}
          /\ NetMove(out', t - 1) = n - c
          /\ out'[t].at = n
          /\ \A r \in n..(n + h - 1) :
               Row(screen', r) = Chunk(out'[t].text, r - n)
          /\ current_line' = n + h
          /\ cursor' = n + h
          /\ lines_counter' = Max(lines_counter, n + h + 1)
          /\ n + h + 1 <= lines_counter => lines_counter' = lines_counter]_vars

\* a _print_at_line of a wrapped text on rows above the cursor, that left the
\* counter as it was
C20_Witness ==
  /\ last.kind = "print_at"
  /\ \E k \in WritesOf(out, {"F"}) : out[k].n > 1
  /\ \E k \in WritesOf(out, {"T"}) : Len(out[k].text) > Width
  /\ lines_counter > current_line + 1

====
